---- MODULE Spec2Model ----
(***************************************************************************)
(* Model of keystone/overlay.py (classes Mount and Overlay) together with  *)
(* the configuration tables of keystone/overlay_configs.py.                *)
(*                                                                         *)
(* Paths are sequences of path components, os.path.join is concatenation.  *)
(* A command is a record holding the argv of the external process.  The    *)
(* exit status of every external command is an input.                      *)
(*                                                                         *)
(* Object lifetime follows the CPython runtime the scripts run under:      *)
(* an object is finalised as soon as its last reference goes away, a list  *)
(* releases its elements from the last to the first, and an exception      *)
(* raised inside __del__ is written to stderr and otherwise ignored.       *)
(* An exception that leaves Overlay.__init__ keeps the frame of __init__   *)
(* (and with it self) alive for as long as the caller holds the exception. *)
(***************************************************************************)
EXTENDS Integers, Sequences, FiniteSets, TLC

\* ------------------------------------------------------------------ bounds
\* number of explicit calls of Mount.__del__ on one Mount object
MaxDelCalls == 2
\* number of explicit calls of Overlay.__del__ on one Overlay object
MaxOverlayDelCalls == 2
\* number of release commands that exit non-zero in one teardown, where two
\* Overlay objects are followed
MaxReleaseFailures == 1
\* number of Overlay objects constructed one after the other on one tree
MaxOpens == 2
\* number of refs in the output of one git ls-remote
MaxRefs == 2
\* number of tags in the current_tags handed to a workflow function
MaxTags == 2

\* ------------------------------------------------------------------- paths
Join(a, b) == a \o b

dirname(p) == SubSeq(p, 1, Len(p) - 1)

\* os.makedirs(p): p and every missing ancestor
makedirs(ds, p) == ds \cup { SubSeq(p, 1, k) : k \in 1..Len(p) }

\* os.mkdir(p): p only
mkdir(ds, p) == ds \cup {p}

TmpRoot == <<"/tmp">>

TmpSuffix == <<"a", "b", "c", "d", "e", "f", "g", "h", "i", "j", "k", "l",
               "m", "n", "o", "p", "q", "r", "s", "t", "u", "v", "w", "x">>

\* tempfile.mkdtemp(prefix=...): the n-th directory made is fresh
mkdtemp(prefix, n) == Join(TmpRoot, <<prefix, TmpSuffix[n]>>)

\* the source_dir arguments Overlay is constructed with
SourceDirs == { <<"src">> }

\* ---------------------------------------------------------------- commands
None == [op |-> "None", args |-> <<>>, lowerdir |-> <<>>,
         upperdir |-> <<>>, workdir |-> <<>>]

Cmd(op, args) == [op |-> op, args |-> args, lowerdir |-> <<>>,
                  upperdir |-> <<>>, workdir |-> <<>>]

BindCommand(source_dir, dest_dir) == Cmd("sudo mount --bind", <<source_dir, dest_dir>>)

UmountCommand(dest_dir) == Cmd("sudo umount", <<dest_dir>>)

CpCommand(source_path, dest_path) == Cmd("cp", <<source_path, dest_path>>)

RmCommand(dest_path) == Cmd("rm -f", <<dest_path>>)

OverlayCommand(lowerdirs, upperdir, workdir, source_dir) ==
  [op |-> "sudo mount --types overlay", args |-> <<source_dir>>,
   lowerdir |-> lowerdirs, upperdir |-> upperdir, workdir |-> workdir]

\* one line of the record of executed external commands
Ran(cmd, ok, by) == [cmd |-> cmd, ok |-> ok, by |-> by]

\* ------------------------------------------------------------ class Mount
\* Mount.__init__ with unmount_command stored before the mount command ran
Mount__init__StoresEarly(mount_command, unmount_command, ok) ==
  [obj |-> [mount_command |-> IF ok THEN mount_command ELSE None,
            unmount_command |-> unmount_command],
   raised |-> ~ok,
   ran |-> <<Ran(mount_command, ok, "acquire")>>]

\* Mount.__init__: both fields None, check_call(mount_command), then the
\* fields are set; a non-zero exit raises CalledProcessError before that.
Mount__init__(mount_command, unmount_command, ok) ==
  [obj |-> IF ok
           THEN [mount_command |-> mount_command, unmount_command |-> unmount_command]
           ELSE [mount_command |-> None, unmount_command |-> None],
   raised |-> ~ok,
   ran |-> <<Ran(mount_command, ok, "acquire")>>]

\* Mount.__del__ that never runs the unmount command
Mount__del__Skips(self, ok) ==
  [ran |-> <<>>, raised |-> FALSE]

\* Mount.__del__: if self.unmount_command: check_call(self.unmount_command)
Mount__del__(self, ok) ==
  IF self.unmount_command # None
  THEN [ran |-> <<Ran(self.unmount_command, ok, "release")>>, raised |-> ~ok]
  ELSE [ran |-> <<>>, raised |-> FALSE]

\* ------------------------------------------------------ overlay_configs.py
\* OVERLAY_MAP: target -> overlay directories.  The entries of
\* overlay_configs.py modelled here are one per list shape, plus the entry
\* overlay_test.py adds for its target.
OVERLAY_MAP ==
  [t \in {"sdm845", "sdm660_64", "msm8937_32go", "cuttlestone_x86_phone", "unittest"} |->
     CASE t = "sdm845" -> <<"qcom-LA.UM.7.3-incoming", "keystone">>
       [] t = "sdm660_64" -> <<"qcom-LA.UM.7.2-incoming">>
       [] t = "msm8937_32go" -> <<>>
       [] t = "cuttlestone_x86_phone" -> <<"cuttlestone">>
       [] t = "unittest" -> <<"unittest1", "unittest2">>]

Rule(path_relative_from, path_relative_to) ==
  [from |-> path_relative_from, to |-> path_relative_to]

\* _AOSP_COMPATIBLE_FS_VIEW: the first directory entry, the hardware/qcom/bt
\* entry and the first build-script entry of the list.
_AOSP_COMPATIBLE_FS_VIEW ==
  << Rule(<<"overlays", "qcom-LA.UM.7.3-incoming", "vendor", "qcom", "opensource", "interfaces">>,
          <<"vendor", "qcom", "opensource", "interfaces">>),
     Rule(<<"overlays", "qcom-LA.UM.7.3-incoming", "hardware", "qcom", "bt">>,
          <<"hardware", "qcom", "bt">>),
     Rule(<<"overlays", "qcom-LA.UM.7.3-incoming", "vendor", "qcom", "opensource",
            "core-utils", "build", "vendor_hal_makefile_generator.sh">>,
          <<"device", "qcom", "common", "vendor_hal_makefile_generator.sh">>) >>

\* FS_VIEW_MAP: target -> remap rules, with the entry overlay_test.py adds.
FS_VIEW_MAP ==
  [t \in {"cuttlestone_x86_phone", "unittest"} |->
     CASE t = "cuttlestone_x86_phone" -> _AOSP_COMPATIBLE_FS_VIEW
       [] t = "unittest" ->
            << Rule(<<"overlays", "unittest1", "from_dir">>, <<"to_dir">>),
               Rule(<<"overlays", "unittest1", "from_file">>, <<"to_file">>) >>]

\* the target arguments Overlay is constructed with
Targets == (DOMAIN OVERLAY_MAP) \cup {"unknown"}

\* the rule list the loop of Overlay.__init__ walks for a target
RulesOf(target) ==
  IF target \in DOMAIN FS_VIEW_MAP THEN FS_VIEW_MAP[target] ELSE <<>>

\* what os.path.isfile / os.path.isdir can say about a rule's source path
Kinds == {"file", "dir", "other"}

\* ----------------------------------------------------------- class Overlay
\* The state one call of Overlay.__init__ works on: the object's fields
\* (mounts, self_overlay_dirs), its locals (overlay_dirs, post), the
\* filesystem (dirs, files, tmp = number of mkdtemp directories made), the
\* commands run so far (log), stdout, the exception raised (err), the Mount
\* object whose construction raised (failed), the number of mount commands
\* run (nacq) and the one that exits non-zero (failAt, 0 for none).
StartOfInit(fs_dirs, fs_files, fs_tmp, failAt) ==
  [mounts |-> <<>>, self_overlay_dirs |-> <<>>, overlay_dirs |-> <<>>,
   post |-> <<>>, dirs |-> fs_dirs, files |-> fs_files, tmp |-> fs_tmp,
   log |-> <<>>, stdout |-> <<>>, err |-> "None", failed |-> <<>>,
   nacq |-> 0, failAt |-> failAt, dynamic_overlay_dir |-> <<>>]

\* what a command that exited zero did to the files copied into place
CommandEffect(files, cmd, ok) ==
  IF ~ok THEN files
  ELSE IF cmd.op = "cp" THEN files \cup {cmd.args[2]}
  ELSE IF cmd.op = "rm -f" THEN files \ {cmd.args[1]}
  ELSE files

\* Overlay._AddMount that puts the new Mount at the front of self._mounts
_AddMountPrepends(st, mount_command, unmount_command) ==
  LET n == st.nacq + 1
      m == Mount__init__(mount_command, unmount_command, n # st.failAt)
      st1 == [st EXCEPT !.nacq = n, !.log = @ \o m.ran,
                        !.files = CommandEffect(@, mount_command, ~m.raised)]
  IN IF m.raised
     THEN [st1 EXCEPT !.err = "CalledProcessError", !.failed = <<m.obj>>]
     ELSE [st1 EXCEPT !.mounts = <<m.obj>> \o @]

\* Overlay._AddMount: construct the Mount, then append it to self._mounts
_AddMount(st, mount_command, unmount_command) ==
  LET n == st.nacq + 1
      m == Mount__init__(mount_command, unmount_command, n # st.failAt)
      st1 == [st EXCEPT !.nacq = n, !.log = @ \o m.ran,
                        !.files = CommandEffect(@, mount_command, ~m.raised)]
  IN IF m.raised
     THEN [st1 EXCEPT !.err = "CalledProcessError", !.failed = <<m.obj>>]
     ELSE [st1 EXCEPT !.mounts = Append(@, m.obj)]

\* Overlay.GetMountInfo: one dict per Mount of self._mounts, in list order
GetMountInfo(self_mounts) ==
  [i \in 1..Len(self_mounts) |->
     [mount_command |-> self_mounts[i].mount_command,
      unmount_command |-> self_mounts[i].unmount_command]]

\* Overlay._BindMount
_BindMount(st, source_dir, dest_dir) ==
  LET st1 == IF dest_dir \notin st.dirs
             THEN [st EXCEPT !.dirs = makedirs(@, dest_dir)]
             ELSE st
  IN _AddMount(st1, BindCommand(source_dir, dest_dir), UmountCommand(dest_dir))

\* Overlay._CopyFileMount whose release removes the source of the copy
_CopyFileMountRemovesSource(st, source_path, dest_path) ==
  LET dest_dir == dirname(dest_path)
      st1 == IF dest_dir \notin st.dirs
             THEN [st EXCEPT !.dirs = makedirs(@, dest_dir)]
             ELSE st
  IN _AddMount(st1, CpCommand(source_path, dest_path), RmCommand(source_path))

\* Overlay._CopyFileMount
_CopyFileMount(st, source_path, dest_path) ==
  LET dest_dir == dirname(dest_path)
      st1 == IF dest_dir \notin st.dirs
             THEN [st EXCEPT !.dirs = makedirs(@, dest_dir)]
             ELSE st
  IN _AddMount(st1, CpCommand(source_path, dest_path), RmCommand(dest_path))

\* os.mkdir(p) as a step of Overlay.__init__: FileExistsError if p exists,
\* FileNotFoundError if its parent does not
MakeDir(st, p) ==
  IF st.err # "None" THEN st
  ELSE IF p \in st.dirs THEN [st EXCEPT !.err = "FileExistsError"]
  ELSE IF dirname(p) \notin st.dirs THEN [st EXCEPT !.err = "FileNotFoundError"]
  ELSE [st EXCEPT !.dirs = mkdir(@, p)]

\* os.mkdir(p) without the isdir test in front of it
EnsureDirUnguarded(st, p) ==
  MakeDir(st, p)

\* Overlay._MountOverlay: if not os.path.isdir(p): os.mkdir(p)
EnsureDir(st, p) ==
  IF p \in st.dirs THEN st ELSE MakeDir(st, p)

\* Overlay._MountOverlay with source_dir put in front of the overlay dirs
_MountOverlaySourceFirst(st, source_dir, target) ==
  LET lowerdirs == <<source_dir>> \o st.overlay_dirs
      overlay_out_dir == Join(source_dir, <<"out", "overlays">>)
      target_out_dir == Join(overlay_out_dir, <<target>>)
      workdir == Join(target_out_dir, <<"work">>)
      upperdir == Join(target_out_dir, <<"artifacts">>)
      st0 == [st EXCEPT !.overlay_dirs = lowerdirs]
      st1 == EnsureDir(EnsureDir(EnsureDir(EnsureDir(st0, overlay_out_dir),
                                           target_out_dir), workdir), upperdir)
  IN IF st1.err # "None" THEN st1
     ELSE _AddMount(st1, OverlayCommand(lowerdirs, upperdir, workdir, source_dir),
                    UmountCommand(source_dir))

\* Overlay._MountOverlay with work and artifacts not under the target's name
_MountOverlaySharedOut(st, source_dir, target) ==
  LET lowerdirs == Append(st.overlay_dirs, source_dir)
      overlay_out_dir == Join(source_dir, <<"out", "overlays">>)
      target_out_dir == overlay_out_dir
      workdir == Join(target_out_dir, <<"work">>)
      upperdir == Join(target_out_dir, <<"artifacts">>)
      st0 == [st EXCEPT !.overlay_dirs = lowerdirs]
      st1 == EnsureDir(EnsureDir(EnsureDir(EnsureDir(st0, overlay_out_dir),
                                           target_out_dir), workdir), upperdir)
  IN IF st1.err # "None" THEN st1
     ELSE _AddMount(st1, OverlayCommand(lowerdirs, upperdir, workdir, source_dir),
                    UmountCommand(source_dir))

\* Overlay._MountOverlay: lowerdirs is the caller's list itself, so the
\* append of source_dir is seen by the caller too.
_MountOverlay(st, source_dir, target) ==
  LET lowerdirs == Append(st.overlay_dirs, source_dir)
      overlay_out_dir == Join(source_dir, <<"out", "overlays">>)
      target_out_dir == Join(overlay_out_dir, <<target>>)
      workdir == Join(target_out_dir, <<"work">>)
      upperdir == Join(target_out_dir, <<"artifacts">>)
      st0 == [st EXCEPT !.overlay_dirs = lowerdirs]
      st1 == EnsureDir(EnsureDir(EnsureDir(EnsureDir(st0, overlay_out_dir),
                                           target_out_dir), workdir), upperdir)
  IN IF st1.err # "None" THEN st1
     ELSE _AddMount(st1, OverlayCommand(lowerdirs, upperdir, workdir, source_dir),
                    UmountCommand(source_dir))

\* the same without the entry in post_overlay_bind_mounts
SaveOutDirForgets(st, source_dir) ==
  LET out_dir == Join(source_dir, <<"out">>)
      st1 == IF out_dir \notin st.dirs
             THEN [st EXCEPT !.dirs = makedirs(@, out_dir)]
             ELSE st
      original_out_dir == mkdtemp("outtmp_", st1.tmp + 1)
      st2 == [st1 EXCEPT !.tmp = @ + 1, !.dirs = mkdir(@, original_out_dir)]
  IN _BindMount(st2, out_dir, original_out_dir)

\* Overlay.__init__, "Save a reference to the workspace out directory"
SaveOutDir(st, source_dir) ==
  LET out_dir == Join(source_dir, <<"out">>)
      st1 == IF out_dir \notin st.dirs
             THEN [st EXCEPT !.dirs = makedirs(@, out_dir)]
             ELSE st
      original_out_dir == mkdtemp("outtmp_", st1.tmp + 1)
      st2 == [st1 EXCEPT !.tmp = @ + 1, !.dirs = mkdir(@, original_out_dir)]
      st3 == _BindMount(st2, out_dir, original_out_dir)
  IN IF st3.err # "None" THEN st3
     ELSE [st3 EXCEPT !.post = Append(@, <<original_out_dir, out_dir>>)]

\* Overlay.__init__, the loop over overlay_configs.OVERLAY_MAP[target]
LookupOverlayDirs(st, target, source_dir) ==
  IF st.err # "None" THEN st
  ELSE IF target \notin DOMAIN OVERLAY_MAP
  THEN [st EXCEPT !.err = "KeyError"]
  ELSE [st EXCEPT !.overlay_dirs =
          [i \in 1..Len(OVERLAY_MAP[target]) |->
             Join(source_dir, <<"overlays", OVERLAY_MAP[target][i]>>)]]

\* the same without the overlays whiteout file
MakeDynamicOverlayDirNoWhiteout(st) ==
  IF st.err # "None" THEN st
  ELSE LET dynamic_overlay_dir == mkdtemp("ovtmp_", st.tmp + 1)
       IN [st EXCEPT !.tmp = @ + 1,
                     !.dirs = mkdir(@, dynamic_overlay_dir),
                     !.dynamic_overlay_dir = dynamic_overlay_dir,
                     !.overlay_dirs = Append(@, dynamic_overlay_dir)]

\* the same with dynamic_overlay_dir put in front of the overlay dirs
MakeDynamicOverlayDirFirst(st) ==
  IF st.err # "None" THEN st
  ELSE LET dynamic_overlay_dir == mkdtemp("ovtmp_", st.tmp + 1)
           overlay_whiteout == Join(dynamic_overlay_dir, <<"overlays">>)
       IN [st EXCEPT !.tmp = @ + 1,
                     !.dirs = mkdir(@, dynamic_overlay_dir),
                     !.dynamic_overlay_dir = dynamic_overlay_dir,
                     !.overlay_dirs = <<dynamic_overlay_dir>> \o @,
                     !.files = @ \cup {overlay_whiteout}]

\* Overlay.__init__, dynamic_overlay_dir and the overlays whiteout file
MakeDynamicOverlayDir(st) ==
  IF st.err # "None" THEN st
  ELSE LET dynamic_overlay_dir == mkdtemp("ovtmp_", st.tmp + 1)
           overlay_whiteout == Join(dynamic_overlay_dir, <<"overlays">>)
       IN [st EXCEPT !.tmp = @ + 1,
                     !.dirs = mkdir(@, dynamic_overlay_dir),
                     !.dynamic_overlay_dir = dynamic_overlay_dir,
                     !.overlay_dirs = Append(@, dynamic_overlay_dir),
                     !.files = @ \cup {overlay_whiteout}]

\* the same with a file copied to its destination in the source tree
ApplyRuleCopiesIntoSource(st, source_dir, rule, kind) ==
  LET path_from == Join(source_dir, rule.from)
  IN IF kind = "file"
     THEN _CopyFileMount(st, path_from, Join(source_dir, rule.to))
     ELSE IF kind = "dir"
     THEN LET path_to == Join(source_dir, rule.to)
              bind_intermediate_dir == mkdtemp("bindtmp_", st.tmp + 1)
              st1 == [st EXCEPT !.tmp = @ + 1, !.dirs = mkdir(@, bind_intermediate_dir)]
              st2 == _BindMount(st1, path_from, bind_intermediate_dir)
          IN IF st2.err # "None" THEN st2
             ELSE [st2 EXCEPT !.post = Append(@, <<bind_intermediate_dir, path_to>>)]
     ELSE [st EXCEPT !.err = "ValueError"]

\* the same with a directory bound straight onto its destination
ApplyRuleDirectBind(st, source_dir, rule, kind) ==
  LET path_from == Join(source_dir, rule.from)
  IN IF kind = "file"
     THEN _CopyFileMount(st, path_from, Join(st.dynamic_overlay_dir, rule.to))
     ELSE IF kind = "dir"
     THEN _BindMount(st, path_from, Join(source_dir, rule.to))
     ELSE [st EXCEPT !.err = "ValueError"]

\* Overlay.__init__, the body of the loop over FS_VIEW_MAP[target] for one rule
ApplyRule(st, source_dir, rule, kind) ==
  LET path_from == Join(source_dir, rule.from)
  IN IF kind = "file"
     THEN _CopyFileMount(st, path_from, Join(st.dynamic_overlay_dir, rule.to))
     ELSE IF kind = "dir"
     THEN LET path_to == Join(source_dir, rule.to)
              bind_intermediate_dir == mkdtemp("bindtmp_", st.tmp + 1)
              st1 == [st EXCEPT !.tmp = @ + 1, !.dirs = mkdir(@, bind_intermediate_dir)]
              st2 == _BindMount(st1, path_from, bind_intermediate_dir)
          IN IF st2.err # "None" THEN st2
             ELSE [st2 EXCEPT !.post = Append(@, <<bind_intermediate_dir, path_to>>)]
     ELSE [st EXCEPT !.err = "ValueError"]

\* the loop over FS_VIEW_MAP[target] that goes on to the next rule after a
\* rule raised
RECURSIVE ApplyRulesContinuing(_, _, _, _, _)
ApplyRulesContinuing(st, source_dir, rules, kinds, i) ==
  IF i > Len(rules) THEN st
  ELSE ApplyRulesContinuing(ApplyRule(st, source_dir, rules[i], kinds[i]),
                            source_dir, rules, kinds, i + 1)

\* Overlay.__init__, the loop over FS_VIEW_MAP[target], from rule i on
RECURSIVE ApplyRules(_, _, _, _, _)
ApplyRules(st, source_dir, rules, kinds, i) ==
  IF st.err # "None" \/ i > Len(rules) THEN st
  ELSE ApplyRules(ApplyRule(st, source_dir, rules[i], kinds[i]),
                  source_dir, rules, kinds, i + 1)

\* Overlay.__init__, self._MountOverlay(...) and the two lines after it
MountAndPrint(st, source_dir, target) ==
  IF st.err # "None" THEN st
  ELSE LET st1 == _MountOverlay(st, source_dir, target)
       IN IF st1.err # "None" THEN st1
          ELSE [st1 EXCEPT !.self_overlay_dirs = st1.overlay_dirs,
                           !.stdout = Append(@, "Applied overlays")]

\* the loop over post_overlay_bind_mounts walked from its last entry
RECURSIVE PostOverlayBindsBackward(_, _)
PostOverlayBindsBackward(st, i) ==
  IF st.err # "None" \/ i > Len(st.post) THEN st
  ELSE PostOverlayBindsBackward(
         _BindMount(st, st.post[Len(st.post) + 1 - i][1],
                        st.post[Len(st.post) + 1 - i][2]), i + 1)

\* Overlay.__init__, the loop over post_overlay_bind_mounts, from entry i on
RECURSIVE PostOverlayBinds(_, _)
PostOverlayBinds(st, i) ==
  IF st.err # "None" \/ i > Len(st.post) THEN st
  ELSE PostOverlayBinds(_BindMount(st, st.post[i][1], st.post[i][2]), i + 1)

\* Overlay.__init__ that indexes FS_VIEW_MAP without testing for the target
Overlay__init__NoViewTest(target, source_dir, kinds, st0) ==
  LET st1 == SaveOutDir(st0, source_dir)
      st2 == LookupOverlayDirs(st1, target, source_dir)
      st3 == MakeDynamicOverlayDir(st2)
      st4 == IF target \in DOMAIN FS_VIEW_MAP
             THEN ApplyRules(st3, source_dir, FS_VIEW_MAP[target], kinds, 1)
             ELSE IF st3.err # "None" THEN st3
             ELSE [st3 EXCEPT !.err = "KeyError"]
      st5 == MountAndPrint(st4, source_dir, target)
  IN PostOverlayBinds(st5, 1)

\* Overlay.__init__ that applies the post-overlay binds before the overlay
Overlay__init__BindsBeforeUnion(target, source_dir, kinds, st0) ==
  LET st1 == SaveOutDir(st0, source_dir)
      st2 == LookupOverlayDirs(st1, target, source_dir)
      st3 == MakeDynamicOverlayDir(st2)
      st4 == IF target \in DOMAIN FS_VIEW_MAP
             THEN ApplyRules(st3, source_dir, FS_VIEW_MAP[target], kinds, 1)
             ELSE st3
      st5 == IF st4.err # "None" THEN st4 ELSE PostOverlayBinds(st4, 1)
  IN MountAndPrint(st5, source_dir, target)

\* Overlay.__init__(target, source_dir); kinds[i] is what the filesystem
\* holds at the source of the i-th rule of the target
Overlay__init__(target, source_dir, kinds, st0) ==
  LET st1 == SaveOutDir(st0, source_dir)
      st2 == LookupOverlayDirs(st1, target, source_dir)
      st3 == MakeDynamicOverlayDir(st2)
      st4 == IF target \in DOMAIN FS_VIEW_MAP
             THEN ApplyRules(st3, source_dir, FS_VIEW_MAP[target], kinds, 1)
             ELSE st3
      st5 == MountAndPrint(st4, source_dir, target)
  IN PostOverlayBinds(st5, 1)

\* Overlay.__del__: print 'Stripped out overlay ...' if self._overlay_dirs
Overlay__del__(self_overlay_dirs) ==
  IF self_overlay_dirs # <<>> THEN <<"Stripped out overlay">> ELSE <<>>

\* the finalisation of one Mount by the runtime: an exception that leaves
\* __del__ is reported on stderr and dropped
Finalise(td, mount, ok) ==
  LET d == Mount__del__(mount, ok)
  IN [td EXCEPT !.log = @ \o d.ran,
                !.files = IF d.ran = <<>> THEN @
                          ELSE CommandEffect(@, d.ran[1].cmd, d.ran[1].ok),
                !.stderr = IF d.raised THEN Append(@, "Exception ignored") ELSE @]

\* the release of self._mounts that stops at the first failing release
RECURSIVE ReleaseMountsStopping(_, _, _, _)
ReleaseMountsStopping(td, ms, i, relFail) ==
  IF i = 0 THEN td
  ELSE IF i \in relFail THEN Finalise(td, ms[i], FALSE)
  ELSE ReleaseMountsStopping(Finalise(td, ms[i], TRUE), ms, i - 1, relFail)

\* the release of self._mounts that walks the list front to back
RECURSIVE ReleaseMountsForward(_, _, _, _)
ReleaseMountsForward(td, ms, i, relFail) ==
  IF i = 0 THEN td
  ELSE ReleaseMountsForward(Finalise(td, ms[Len(ms) + 1 - i], i \notin relFail),
                            ms, i - 1, relFail)

\* the release of the list self._mounts when the Overlay goes away: the
\* Mount objects are finalised from index i down to 1; relFail holds the
\* indices whose unmount command exits non-zero
RECURSIVE ReleaseMounts(_, _, _, _)
ReleaseMounts(td, ms, i, relFail) ==
  IF i = 0 THEN td
  ELSE ReleaseMounts(Finalise(td, ms[i], i \notin relFail), ms, i - 1, relFail)

\* what happens when the last reference to an Overlay goes away, directly
\* or through the exception its __init__ raised: the Mount whose __init__
\* raised (held by the traceback) and the Mounts of self._mounts are
\* finalised
Teardown(td, failedMounts, ms, relFail) ==
  LET td1 == IF failedMounts = <<>> THEN td
             ELSE Finalise(td, failedMounts[1], TRUE)
  IN ReleaseMounts(td1, ms, Len(ms), relFail)

\* o.__del__() called by the holder of the Overlay, with the self._mounts
\* released by the call
ExplicitOverlayDelReleases(td, self_overlay_dirs, ms) ==
  ReleaseMounts([td EXCEPT !.stdout = @ \o Overlay__del__(self_overlay_dirs)],
                ms, Len(ms), {})

\* o.__del__() called by the holder of the Overlay: the body of
\* Overlay.__del__ runs, the object and its self._mounts stay as they are
ExplicitOverlayDel(td, self_overlay_dirs, ms) ==
  [td EXCEPT !.stdout = @ \o Overlay__del__(self_overlay_dirs)]

\* ------------------------------------------ tools/metamon/meta_monitor.py
\* A git tag, a ref name and the output of a command are sequences of
\* characters; a path is a sequence of components; an argv entry is a string
\* (an option or a URL), a path or a tag.

\* the characters of the class [a-z0-9_\.] that occur in the names below
TagChars == {"r", "c", "0", "1", "2", ".", "_"}

\* the longest run of characters of the class in name, from position i on
RECURSIVE RunOfTagChars(_, _)
RunOfTagChars(name, i) ==
  IF i > Len(name) \/ name[i] \notin TagChars THEN <<>>
  ELSE <<name[i]>> \o RunOfTagChars(name, i + 1)

\* GIT_TAG_REGEX = r'refs/tags/(r[a-z0-9_\.]+)' on one line
\* '<sha>\trefs/tags/<name>' of the output of git ls-remote: the matches
\* (none or one), each the group captured
GIT_TAG_REGEX(name) ==
  IF Len(name) >= 2 /\ name[1] = "r" /\ name[2] \in TagChars
  THEN << <<"r">> \o RunOfTagChars(name, 2) >>
  ELSE <<>>

\* re.findall(GIT_TAG_REGEX, raw_tags), raw_tags given by its lines from i on
RECURSIVE findall(_, _)
findall(lines, i) ==
  IF i > Len(lines) THEN <<>>
  ELSE GIT_TAG_REGEX(lines[i]) \o findall(lines, i + 1)

Whitespace == {" ", "\n"}

\* str.strip()
RECURSIVE strip(_)
strip(str) ==
  IF str = <<>> THEN str
  ELSE IF str[1] \in Whitespace THEN strip(Tail(str))
  ELSE IF str[Len(str)] \in Whitespace THEN strip(SubSeq(str, 1, Len(str) - 1))
  ELSE str

\* set(list)
set(list) == { list[i] : i \in 1..Len(list) }

\* one subprocess made by a command of MetaMonitorCommands: the function
\* that made it, the program, the arguments, cwd and the return code
Subprocess(by, prog, args, cwd, returncode) ==
  [by |-> by, prog |-> prog, args |-> args, cwd |-> cwd, returncode |-> returncode]

\* the values a return code takes
ReturnCodes == {0, 1}

\* fetch_git_tags(commands, url)
fetch_git_tags(url, returncode, stdout) ==
  [cmds |-> << Subprocess("fetch_git_tags", "git",
                          <<"ls-remote", "--refs", "--tags", url>>,
                          <<>>, returncode) >>,
   ret |-> IF returncode # 0 THEN <<>> ELSE findall(stdout, 1)]

\* clone_git_repo(commands, url, target_work_dir); rc holds the return codes
\* of its commands, describe the output of git describe
clone_git_repo(url, target_work_dir, rc, describe) ==
  LET rm == Subprocess("clone_git_repo", "rm", <<"-rf", target_work_dir>>,
                       <<>>, rc.rm_clone)
      git_clone == Subprocess("clone_git_repo", "git",
                              <<"clone", "--depth=1", "--quiet", url, target_work_dir>>,
                              <<>>, rc.git_clone)
      git_describe == Subprocess("clone_git_repo", "git", <<"describe">>,
                                 target_work_dir, rc.git_describe)
  IN IF rc.rm_clone # 0 THEN [cmds |-> <<rm>>, ret |-> <<>>]
     ELSE IF rc.git_clone # 0 THEN [cmds |-> <<rm, git_clone>>, ret |-> <<>>]
     ELSE IF rc.git_describe # 0
     THEN [cmds |-> <<rm, git_clone, git_describe>>, ret |-> <<>>]
     ELSE [cmds |-> <<rm, git_clone, git_describe>>, ret |-> strip(describe)]

\* 'meta-source-%s.tar.gz' % alias
ArchiveName(alias) == <<"meta-source-", alias, ".tar.gz">>

\* 'gs://meta-source/%s/%s/meta-source.tar.gz' % (alias, git_tag)
ArchiveUrl(alias, git_tag) == <<"gs://meta-source", alias, git_tag, "meta-source.tar.gz">>

\* archive_git_repo that uploads whatever tar returned
archive_git_repoIgnoresTar(alias, work_dir, target_work_dir, git_tag, rc) ==
  LET archive_name == ArchiveName(alias)
      tar == Subprocess("archive_git_repo", "tar",
                        <<"-C", target_work_dir, "-czf", archive_name, ".">>,
                        work_dir, rc.tar)
      gsutil == Subprocess("archive_git_repo", "gsutil",
                           <<"-q", "cp", archive_name, ArchiveUrl(alias, git_tag)>>,
                           work_dir, rc.gsutil)
  IN IF rc.gsutil # 0 THEN [cmds |-> <<tar, gsutil>>, ret |-> FALSE]
     ELSE [cmds |-> <<tar, gsutil>>, ret |-> TRUE]

\* archive_git_repo(commands, alias, work_dir, target_work_dir, git_tag)
archive_git_repo(alias, work_dir, target_work_dir, git_tag, rc) ==
  LET archive_name == ArchiveName(alias)
      tar == Subprocess("archive_git_repo", "tar",
                        <<"-C", target_work_dir, "-czf", archive_name, ".">>,
                        work_dir, rc.tar)
      gsutil == Subprocess("archive_git_repo", "gsutil",
                           <<"-q", "cp", archive_name, ArchiveUrl(alias, git_tag)>>,
                           work_dir, rc.gsutil)
  IN IF rc.tar # 0 THEN [cmds |-> <<tar>>, ret |-> FALSE]
     ELSE IF rc.gsutil # 0 THEN [cmds |-> <<tar, gsutil>>, ret |-> FALSE]
     ELSE [cmds |-> <<tar, gsutil>>, ret |-> TRUE]

\* cleanup_target(commands, alias, work_dir, target_work_dir)
cleanup_target(alias, work_dir, target_work_dir, rc) ==
  LET rm_rf == Subprocess("cleanup_target", "rm", <<"-rf", target_work_dir>>,
                          <<>>, rc.rm_rf)
      rm_f == Subprocess("cleanup_target", "rm", <<"-f", ArchiveName(alias)>>,
                         work_dir, rc.rm_f)
  IN IF rc.rm_rf # 0 THEN [cmds |-> <<rm_rf>>, ret |-> FALSE]
     ELSE IF rc.rm_f # 0 THEN [cmds |-> <<rm_rf, rm_f>>, ret |-> FALSE]
     ELSE [cmds |-> <<rm_rf, rm_f>>, ret |-> TRUE]

\* run_workflow_triggers that is satisfied by any fetched tag
run_workflow_triggersNoDelta(git_url, git_alias, current_tags, returncode, stdout) ==
  LET f == fetch_git_tags(git_url, returncode, stdout)
      new_tags == f.ret
  IN IF new_tags = <<>>
     THEN [cmds |-> f.cmds, trigger |-> FALSE, tags |-> current_tags]
     ELSE [cmds |-> f.cmds, trigger |-> TRUE, tags |-> new_tags]

\* run_workflow_triggers(commands, git_url, git_alias, current_tags)
run_workflow_triggers(git_url, git_alias, current_tags, returncode, stdout) ==
  LET f == fetch_git_tags(git_url, returncode, stdout)
      new_tags == f.ret
      tags_delta == set(new_tags) \ set(current_tags)
  IN IF new_tags = <<>>
     THEN [cmds |-> f.cmds, trigger |-> FALSE, tags |-> current_tags]
     ELSE IF tags_delta = {}
     THEN [cmds |-> f.cmds, trigger |-> FALSE, tags |-> current_tags]
     ELSE [cmds |-> f.cmds, trigger |-> TRUE, tags |-> new_tags]

\* run_workflow_body that returns after a failed archive without cleanup
run_workflow_bodyLeavesArchive(git_url, git_alias, work_dir, current_tags, rc, describe) ==
  LET target_work_dir == Join(work_dir, <<git_alias>>)
      c == clone_git_repo(git_url, target_work_dir, rc, describe)
      git_tag == c.ret
      cl == cleanup_target(git_alias, work_dir, target_work_dir, rc)
      a == archive_git_repo(git_alias, work_dir, target_work_dir, git_tag, rc)
  IN IF git_tag \notin set(current_tags)
     THEN [cmds |-> c.cmds \o cl.cmds, ret |-> FALSE]
     ELSE IF ~a.ret
     THEN [cmds |-> c.cmds \o a.cmds, ret |-> FALSE]
     ELSE [cmds |-> c.cmds \o a.cmds \o cl.cmds, ret |-> TRUE]

\* run_workflow_body(commands, git_url, git_alias, work_dir, current_tags)
run_workflow_body(git_url, git_alias, work_dir, current_tags, rc, describe) ==
  LET target_work_dir == Join(work_dir, <<git_alias>>)
      c == clone_git_repo(git_url, target_work_dir, rc, describe)
      git_tag == c.ret
      cl == cleanup_target(git_alias, work_dir, target_work_dir, rc)
      a == archive_git_repo(git_alias, work_dir, target_work_dir, git_tag, rc)
  IN IF git_tag \notin set(current_tags)
     THEN [cmds |-> c.cmds \o cl.cmds, ret |-> FALSE]
     ELSE IF ~a.ret
     THEN [cmds |-> c.cmds \o a.cmds \o cl.cmds, ret |-> FALSE]
     ELSE [cmds |-> c.cmds \o a.cmds \o cl.cmds, ret |-> TRUE]

\* the names bound at the top level of the module meta_monitor
ModuleGlobals ==
  {"asyncio", "logging", "os", "random", "re", "GIT_TAG_REGEX", "logger",
   "make_subprocess_cmd", "MetaMonitorCommands", "fetch_git_tags",
   "clone_git_repo", "archive_git_repo", "cleanup_target",
   "run_workflow_triggers", "run_workflow_body", "target_meta_loop"}

\* the parameters of target_meta_loop, in the order of its signature
target_meta_loop_params ==
  <<"commands", "loop", "git_url", "git_alias", "offset", "interval", "work_dir">>

\* the call of a function without defaults with positional arguments:
\* TypeError unless there is one argument per parameter
BindArguments(params, args) ==
  IF Len(args) # Len(params) THEN "TypeError" ELSE "None"

\* target_meta_loop(*args) at loop time now: the arguments are bound, line
\* 278 sets next_wakeup_time, line 281 looks up fetch_target_git_tags; the
\* while loop is reached only if that name is bound in the module
target_meta_loop(args, now) ==
  IF BindArguments(target_meta_loop_params, args) # "None"
  THEN [raised |-> "TypeError", line |-> 261, next_wakeup_time |-> 0]
  ELSE LET offset == args[5]
           next_wakeup_time == now + offset + 1
       IN IF "fetch_target_git_tags" \notin ModuleGlobals
          THEN [raised |-> "NameError", line |-> 281,
                next_wakeup_time |-> next_wakeup_time]
          ELSE [raised |-> "None", line |-> 283,
                next_wakeup_time |-> next_wakeup_time]

\* ------------------------------------------ tools/metamon/meta_monitor_gce.py
\* META_TARGETS: [url, alias] per SoC; the first two entries of the list
META_TARGETS ==
  << <<"https://chipmaster2.qti.qualcomm.com/home2/git/google-inc/sdm845-la-2-0_test_device.git",
       "sdm845">>,
     <<"https://chipmaster2.qti.qualcomm.com/home2/git/google-inc/snapdragon-high-mid-2017-spf-3-0_test_device.git",
       "sdm660">> >>

\* the values of --meta_poll_interval: the default and one given on the
\* command line
PollIntervals == {7200, 60}

\* main(): work_dir is made, then the list of target_meta_loop(...) calls is
\* built, one per entry of META_TARGETS, each with the six arguments
\* (commands, url, alias, interval, work_dir, loop); the first call that
\* raises ends main, the try block is not reached
main(meta_poll_interval, now) ==
  LET work_dir == Join(TmpRoot, <<"tmp_work">>)
      calls == [i \in 1..Len(META_TARGETS) |->
                  target_meta_loop(<<"commands", META_TARGETS[i][1], META_TARGETS[i][2],
                                     meta_poll_interval, work_dir, "loop">>, now)]
      raising == { i \in 1..Len(calls) : calls[i].raised # "None" }
  IN IF raising = {}
     THEN [raised |-> "None", started |-> Len(calls)]
     ELSE LET first == CHOOSE i \in raising : \A j \in raising : i <= j
          IN [raised |-> calls[first].raised, started |-> first - 1]

\* ------------------------------------------------------------------- state
VARIABLES
  phase,             \* "none", "open", "failed" (the caller holds the exception), "closed"
  target,            \* the target Overlay was constructed with
  srcKind,           \* srcKind[i]: kind of the source path of the target's i-th rule
  mounts,            \* self._mounts
  failed,            \* the Mount whose __init__ raised, while the traceback holds it
  self_overlay_dirs, \* self._overlay_dirs, <<>> for None
  error,             \* the exception Overlay(...) raised to its caller
  reported,          \* the exceptions the disposal of the Overlay raised to its caller
  log,               \* the external commands run, in order
  dirs,              \* the directories that exist
  files,             \* the files the session has put in place
  tmpCount,          \* number of mkdtemp directories made
  stdout,
  stderr,
  mobj,              \* a Mount constructed on its own (as MountTest does)
  mphase,            \* "none", "held", "raised", "dropped"
  delCalls,          \* explicit calls of mobj.__del__() made
  overlayDelCalls,   \* explicit calls of o.__del__() made on the Overlay
  second,            \* a second Overlay constructed while the first is alive
  opens,             \* number of Overlay objects constructed one after the other
  monFn,             \* the function of meta_monitor called last, "none" before
  monArgs,           \* the arguments of that call
  monResult,         \* what the call returned
  monRaised,         \* the exception the call raised, "None" for none
  monCmds            \* the external commands the call ran, in order

vars == <<phase, target, srcKind, mounts, failed, self_overlay_dirs, error,
          reported, log, dirs, files, tmpCount, stdout, stderr,
          mobj, mphase, delCalls, overlayDelCalls, second, opens,
          monFn, monArgs, monResult, monRaised, monCmds>>

monVars == <<monFn, monArgs, monResult, monRaised, monCmds>>

sessionVars == <<overlayDelCalls, second, opens,
                 phase, target, srcKind, mounts, failed, self_overlay_dirs,
                 error, reported, dirs, files, tmpCount, stdout, stderr>>

mountVars == <<mobj, mphase, delCalls>>

BaseDirs == {TmpRoot} \cup SourceDirs

\* no second Overlay has been constructed
NoSecond == [phase |-> "none", target |-> "none", source_dir |-> <<>>,
             mounts |-> <<>>, failed |-> <<>>, self_overlay_dirs |-> <<>>,
             error |-> "None"]

Init ==
  /\ phase = "none"
  /\ target = "none"
  /\ srcKind = <<>>
  /\ mounts = <<>>
  /\ failed = <<>>
  /\ self_overlay_dirs = <<>>
  /\ error = "None"
  /\ reported = <<>>
  /\ log = <<>>
  /\ \E withOut \in SUBSET { Join(sd, <<"out">>) : sd \in SourceDirs } :
       dirs = BaseDirs \cup withOut
  /\ files = {}
  /\ tmpCount = 0
  /\ stdout = <<>>
  /\ stderr = <<>>
  /\ mobj = <<>>
  /\ mphase = "none"
  /\ delCalls = 0
  /\ overlayDelCalls = 0
  /\ second = NoSecond
  /\ opens = 0
  /\ monFn = "none"
  /\ monArgs = <<>>
  /\ monResult = <<>>
  /\ monRaised = "None"
  /\ monCmds = <<>>

\* ----------------------------------------------------------------- actions
\* o = overlay.Overlay(target, source_dir)
Open ==
  /\ phase = "none"
  /\ \E t \in Targets, sd \in SourceDirs :
       \E kinds \in [1..Len(RulesOf(t)) -> Kinds],
          failAt \in 0..(3 + 2 * Len(RulesOf(t))) :
         LET r == Overlay__init__(t, sd, kinds,
                                  StartOfInit(dirs, files, tmpCount, failAt))
         IN /\ phase' = IF r.err = "None" THEN "open" ELSE "failed"
            /\ target' = t
            /\ srcKind' = kinds
            /\ mounts' = r.mounts
            /\ failed' = r.failed
            /\ self_overlay_dirs' = r.self_overlay_dirs
            /\ error' = r.err
            /\ log' = r.log
            /\ dirs' = r.dirs
            /\ files' = r.files
            /\ tmpCount' = r.tmp
            /\ stdout' = r.stdout
  /\ opens' = 1
  /\ UNCHANGED <<reported, stderr, mountVars, overlayDelCalls, second, monVars>>

\* the caller gives up the Overlay (del o, end of scope, Close); the release
\* commands that exit non-zero are those of one of the index sets failSets
CloseWith(failSets) ==
  /\ phase = "open"
  /\ \E relFail \in failSets :
       LET td == Teardown([log |-> log, files |-> files, stderr |-> stderr],
                          failed, mounts, relFail)
       IN /\ log' = td.log
          /\ files' = td.files
          /\ stderr' = td.stderr
  /\ stdout' = stdout \o Overlay__del__(self_overlay_dirs)
  /\ mounts' = <<>>
  /\ failed' = <<>>
  /\ reported' = <<>>
  /\ phase' = "closed"
  /\ UNCHANGED <<target, srcKind, self_overlay_dirs, error, dirs, tmpCount,
                 mountVars, overlayDelCalls, second, opens, monVars>>

Close == CloseWith(SUBSET (1..Len(mounts)))

\* the caller gives up the exception Overlay(...) raised: the traceback, the
\* frames of __init__ and the half-constructed Overlay go away with it
DropError ==
  /\ phase = "failed"
  /\ \E relFail \in SUBSET (1..Len(mounts)) :
       LET td == Teardown([log |-> log, files |-> files, stderr |-> stderr],
                          failed, mounts, relFail)
       IN /\ log' = td.log
          /\ files' = td.files
          /\ stderr' = td.stderr
  /\ stdout' = stdout \o Overlay__del__(self_overlay_dirs)
  /\ mounts' = <<>>
  /\ failed' = <<>>
  /\ reported' = <<>>
  /\ phase' = "closed"
  /\ UNCHANGED <<target, srcKind, self_overlay_dirs, error, dirs, tmpCount,
                 mountVars, overlayDelCalls, second, opens, monVars>>

\* o.__del__() called by the holder of the Overlay
CallOverlayDel ==
  /\ phase = "open"
  /\ overlayDelCalls < MaxOverlayDelCalls
  /\ LET td == ExplicitOverlayDel([log |-> log, files |-> files, stderr |-> stderr,
                                   stdout |-> stdout], self_overlay_dirs, mounts)
     IN /\ log' = td.log
        /\ files' = td.files
        /\ stderr' = td.stderr
        /\ stdout' = td.stdout
  /\ overlayDelCalls' = overlayDelCalls + 1
  /\ UNCHANGED <<phase, target, srcKind, mounts, failed, self_overlay_dirs, error,
                 reported, dirs, tmpCount, mountVars, second, opens, monVars>>

Next == Open \/ Close \/ DropError \/ CallOverlayDel

Spec == Init /\ [][Next]_vars

\* ------------------------------------- a second Overlay on the same tree
\* the index sets of at most MaxReleaseFailures of the mounts ms
FewOf(ms) ==
  { f \in SUBSET (1..Len(ms)) : Cardinality(f) <= MaxReleaseFailures }

\* o2 = overlay.Overlay(target, source_dir) while the first Overlay is alive
OpenSecond ==
  /\ phase = "open"
  /\ second.phase = "none"
  /\ \E t \in Targets, sd \in SourceDirs :
       \E kinds \in [1..Len(RulesOf(t)) -> Kinds],
          failAt \in 0..(3 + 2 * Len(RulesOf(t))) :
         LET r == Overlay__init__(t, sd, kinds,
                                  StartOfInit(dirs, files, tmpCount, failAt))
         IN /\ second' = [phase |-> IF r.err = "None" THEN "open" ELSE "failed",
                          target |-> t, source_dir |-> sd, mounts |-> r.mounts,
                          failed |-> r.failed,
                          self_overlay_dirs |-> r.self_overlay_dirs,
                          error |-> r.err]
            /\ log' = log \o r.log
            /\ dirs' = r.dirs
            /\ files' = r.files
            /\ tmpCount' = r.tmp
            /\ stdout' = stdout \o r.stdout
  /\ UNCHANGED <<phase, target, srcKind, mounts, failed, self_overlay_dirs, error,
                 reported, stderr, mountVars, overlayDelCalls, opens, monVars>>

\* the second Overlay, or the exception its __init__ raised, is given up
CloseSecond ==
  /\ second.phase \in {"open", "failed"}
  /\ \E relFail \in FewOf(second.mounts) :
       LET td == Teardown([log |-> log, files |-> files, stderr |-> stderr],
                          second.failed, second.mounts, relFail)
       IN /\ log' = td.log
          /\ files' = td.files
          /\ stderr' = td.stderr
  /\ stdout' = stdout \o Overlay__del__(second.self_overlay_dirs)
  /\ second' = [second EXCEPT !.phase = "closed", !.mounts = <<>>, !.failed = <<>>]
  /\ UNCHANGED <<phase, target, srcKind, mounts, failed, self_overlay_dirs, error,
                 reported, dirs, tmpCount, mountVars, overlayDelCalls, opens, monVars>>

\* the first Overlay is given up, in a run that follows two
CloseFirst == CloseWith(FewOf(mounts))

NextTwo == Open \/ DropError \/ CloseFirst \/ OpenSecond \/ CloseSecond

SpecTwo == Init /\ [][NextTwo]_vars

\* ------------------------------- Overlay objects one after the other
\* the Overlay is given up and every release command exits zero
CloseClean == CloseWith({{}})

\* o = overlay.Overlay(target, source_dir) once more, for the same target on
\* the same tree, after the Overlay before it was set up and given up; the
\* filesystem is as that session left it, and log, stdout and stderr record
\* the new session from here on
OpenAgain ==
  /\ phase = "closed"
  /\ error = "None"
  /\ opens < MaxOpens
  /\ \E sd \in SourceDirs :
       \E kinds \in [1..Len(RulesOf(target)) -> Kinds],
          failAt \in 0..(3 + 2 * Len(RulesOf(target))) :
         LET r == Overlay__init__(target, sd, kinds,
                                  StartOfInit(dirs, files, tmpCount, failAt))
         IN /\ phase' = IF r.err = "None" THEN "open" ELSE "failed"
            /\ srcKind' = kinds
            /\ mounts' = r.mounts
            /\ failed' = r.failed
            /\ self_overlay_dirs' = r.self_overlay_dirs
            /\ error' = r.err
            /\ log' = r.log
            /\ dirs' = r.dirs
            /\ files' = r.files
            /\ tmpCount' = r.tmp
            /\ stdout' = r.stdout
  /\ stderr' = <<>>
  /\ opens' = opens + 1
  /\ UNCHANGED <<target, reported, mountVars, overlayDelCalls, second, monVars>>

NextAgain == Open \/ DropError \/ CloseClean \/ OpenAgain

SpecAgain == Init /\ [][NextAgain]_vars

\* ------------------------------------------------- a Mount used on its own
\* the commands overlay_test.py and Overlay hand to Mount
MountCommands ==
  { Cmd("/bin/true", <<>>), Cmd("/bin/false", <<>>),
    BindCommand(<<"src", "out">>, <<"/tmp", "outtmp_", "a">>) }

UnmountCommands ==
  { Cmd("/bin/true", <<>>), Cmd("/bin/touch", <<<<"/tmp", "t", "unmounted">>>>),
    UmountCommand(<<"/tmp", "outtmp_", "a">>), None }

\* mount = overlay.Mount(mount_command, unmount_command)
NewMount ==
  /\ mphase = "none"
  /\ \E mc \in MountCommands, uc \in UnmountCommands, ok \in BOOLEAN :
       LET m == Mount__init__(mc, uc, ok)
       IN /\ mobj' = <<m.obj>>
          /\ mphase' = IF m.raised THEN "raised" ELSE "held"
          /\ log' = log \o m.ran
  /\ UNCHANGED <<sessionVars, delCalls, monVars>>

\* mount.__del__() called by the holder of the Mount
CallDel ==
  /\ mphase = "held"
  /\ delCalls < MaxDelCalls
  /\ \E ok \in BOOLEAN :
       log' = log \o Mount__del__(mobj[1], ok).ran
  /\ delCalls' = delCalls + 1
  /\ UNCHANGED <<sessionVars, mobj, mphase, monVars>>

\* the last reference to the Mount goes away; the runtime finalises it
DropMount ==
  /\ mphase \in {"held", "raised"}
  /\ \E ok \in BOOLEAN :
       log' = log \o Mount__del__(mobj[1], ok).ran
  /\ mphase' = "dropped"
  /\ UNCHANGED <<sessionVars, mobj, delCalls, monVars>>

NextMount == NewMount \/ CallDel \/ DropMount

SpecMount == Init /\ [][NextMount]_vars

\* -------------------------------------------- the functions of meta_monitor
\* the tags of a repository
Tags == { <<"r", "1">>, <<"r", "2">> }

\* the values of current_tags: lists of at most MaxTags tags
TagLists == UNION { [1..n -> Tags] : n \in 0..MaxTags }

\* the names of the refs under refs/tags/ git ls-remote may print
RefNames == Tags \cup { <<"v", "1">>, <<"r">>, <<"r", "2", "-", "r", "c">> }

\* the outputs of git ls-remote: at most MaxRefs lines
LsRemoteOutputs == UNION { [1..n -> RefNames] : n \in 0..MaxRefs }

\* the outputs of git describe: a tag, a tag that was not fetched, or a
\* commit past a tag
DescribeOutputs ==
  { <<"r", "1", "\n">>, <<"r", "2", "\n">>, <<"r", "0", "\n">>,
    <<"r", "2", "-", "1", "\n">> }

\* the top level working folders
WorkDirs == { Join(TmpRoot, <<"tmp_work">>) }

\* the return codes of the commands of one call of run_workflow_body
BodyReturnCodes ==
  [rm_clone : ReturnCodes, git_clone : ReturnCodes, git_describe : ReturnCodes,
   tar : ReturnCodes, gsutil : ReturnCodes, rm_rf : ReturnCodes, rm_f : ReturnCodes]

\* trigger, tags = await run_workflow_triggers(commands, url, alias, current_tags)
CallTriggers ==
  /\ monFn = "none"
  /\ \E t \in 1..Len(META_TARGETS), current_tags \in TagLists,
        returncode \in ReturnCodes, lines \in LsRemoteOutputs :
       LET r == run_workflow_triggers(META_TARGETS[t][1], META_TARGETS[t][2],
                                      current_tags, returncode, lines)
       IN /\ monArgs' = [git_url |-> META_TARGETS[t][1], git_alias |-> META_TARGETS[t][2],
                         current_tags |-> current_tags, returncode |-> returncode,
                         lines |-> lines]
          /\ monResult' = [trigger |-> r.trigger, tags |-> r.tags]
          /\ monCmds' = r.cmds
  /\ monFn' = "run_workflow_triggers"
  /\ monRaised' = "None"
  /\ UNCHANGED <<sessionVars, mountVars, log>>

\* ok = await run_workflow_body(commands, url, alias, work_dir, current_tags)
CallBody ==
  /\ monFn = "none"
  /\ \E t \in 1..Len(META_TARGETS), work_dir \in WorkDirs, current_tags \in TagLists,
        rc \in BodyReturnCodes, describe \in DescribeOutputs :
       LET r == run_workflow_body(META_TARGETS[t][1], META_TARGETS[t][2], work_dir,
                                  current_tags, rc, describe)
       IN /\ monArgs' = [git_url |-> META_TARGETS[t][1], git_alias |-> META_TARGETS[t][2],
                         work_dir |-> work_dir, current_tags |-> current_tags,
                         rc |-> rc, describe |-> describe]
          /\ monResult' = r.ret
          /\ monCmds' = r.cmds
  /\ monFn' = "run_workflow_body"
  /\ monRaised' = "None"
  /\ UNCHANGED <<sessionVars, mountVars, log>>

\* ok = await archive_git_repo(commands, alias, work_dir, target_work_dir, git_tag)
CallArchive ==
  /\ monFn = "none"
  /\ \E t \in 1..Len(META_TARGETS), work_dir \in WorkDirs, git_tag \in Tags,
        rc \in [tar : ReturnCodes, gsutil : ReturnCodes] :
       LET target_work_dir == Join(work_dir, <<META_TARGETS[t][2]>>)
           r == archive_git_repo(META_TARGETS[t][2], work_dir, target_work_dir,
                                 git_tag, rc)
       IN /\ monArgs' = [alias |-> META_TARGETS[t][2], work_dir |-> work_dir,
                         target_work_dir |-> target_work_dir, git_tag |-> git_tag,
                         rc |-> rc]
          /\ monResult' = r.ret
          /\ monCmds' = r.cmds
  /\ monFn' = "archive_git_repo"
  /\ monRaised' = "None"
  /\ UNCHANGED <<sessionVars, mountVars, log>>

\* the times loop.time() shows when a polling loop is started
LoopTimes == 0..2

\* meta_monitor_gce.main() is run
RunMain ==
  /\ monFn = "none"
  /\ \E meta_poll_interval \in PollIntervals, now \in LoopTimes :
       LET r == main(meta_poll_interval, now)
       IN /\ monArgs' = [meta_poll_interval |-> meta_poll_interval, now |-> now]
          /\ monResult' = r.started
          /\ monRaised' = r.raised
  /\ monFn' = "main"
  /\ monCmds' = <<>>
  /\ UNCHANGED <<sessionVars, mountVars, log>>

\* await target_meta_loop(commands, loop, url, alias, offset, interval,
\* work_dir), one argument per parameter
CallLoop ==
  /\ monFn = "none"
  /\ \E t \in 1..Len(META_TARGETS), offset \in 0..1, interval \in PollIntervals,
        work_dir \in WorkDirs, now \in LoopTimes :
       LET r == target_meta_loop(<<"commands", "loop", META_TARGETS[t][1],
                                   META_TARGETS[t][2], offset, interval, work_dir>>, now)
       IN /\ monArgs' = [git_url |-> META_TARGETS[t][1], git_alias |-> META_TARGETS[t][2],
                         offset |-> offset, interval |-> interval,
                         work_dir |-> work_dir, now |-> now]
          /\ monResult' = r.next_wakeup_time
          /\ monRaised' = r.raised
  /\ monFn' = "target_meta_loop"
  /\ monCmds' = <<>>
  /\ UNCHANGED <<sessionVars, mountVars, log>>

NextMon == CallTriggers \/ CallBody \/ CallArchive \/ RunMain \/ CallLoop

SpecMon == Init /\ [][NextMon]_vars

\* ------------------------------------------------------------ vocabulary
\* the mount commands that exited zero, in the order they ran
Acquired == SelectSeq(log, LAMBDA e : e.by = "acquire" /\ e.ok)

\* the unmount commands that were run, in the order they ran
Released == SelectSeq(log, LAMBDA e : e.by = "release")

\* the release command that undoes an acquire command
ReleaseOf(cmd) ==
  IF cmd.op = "cp" THEN Cmd("rm -f", <<cmd.args[2]>>)
  ELSE IF cmd.op = "sudo mount --bind" THEN Cmd("sudo umount", <<cmd.args[2]>>)
  ELSE Cmd("sudo umount", <<cmd.args[1]>>)

IsTmp(path) == path[1] = "/tmp"

IsUnion(cmd) == cmd.op = "sudo mount --types overlay"

\* out-preserve bind, intermediate bind or file copy
IsPreUnion(cmd) ==
  \/ cmd.op = "cp"
  \/ cmd.op = "sudo mount --bind" /\ IsTmp(cmd.args[2])

\* out-restore bind or final directory bind
IsOnTop(cmd) == cmd.op = "sudo mount --bind" /\ ~IsTmp(cmd.args[2])

\* mounts acquired and not yet released
ActiveMounts == Len(Acquired) - Len(Released)

Reverse(s) == [i \in 1..Len(s) |-> s[Len(s) + 1 - i]]

\* ------------------------------------------------------------------ claims
\* C1: after a successful Overlay(target, source_dir) followed by the
\* disposal of the session, the commands run are the acquires followed by
\* exactly one release per acquire, the releases being those of the
\* acquires in reverse order.
C1_ReleaseInReverseOrder ==
  (phase = "closed" /\ error = "None") =>
     /\ log = Acquired \o Released
     /\ Len(Released) = Len(Acquired)
     /\ \A i \in 1..Len(Released) :
          Released[i].cmd = ReleaseOf(Reverse(Acquired)[i].cmd)

C1_Witness ==
  /\ phase = "closed" /\ error = "None"
  /\ target = "unittest" /\ srcKind = <<"dir", "file">>
  /\ Len(Acquired) = 6 /\ Len(Released) = 6

\* C2 (as claimed): in the state in which the caller observes the failure
\* of Overlay(...), no mount acquired by it is still active.
C2_NoActiveMountWhenErrorObserved ==
  phase = "failed" => ActiveMounts = 0

\* C3 (as claimed): Overlay(...) with a target absent from OVERLAY_MAP
\* raises KeyError having run no command, created no directory and made no
\* temp directory.
C3_UnknownTargetHasNoEffect ==
  [][(phase = "none" /\ target' \notin DOMAIN OVERLAY_MAP /\ phase' = "failed") =>
       /\ error' = "KeyError"
       /\ log' = <<>>
       /\ dirs' = dirs
       /\ tmpCount' = tmpCount]_vars

\* C4: in a successful Open the union mount is acquired after the
\* out-preserve bind, every copy and every intermediate bind, and before the
\* out-restore bind and every final bind; at teardown the union mount is
\* released after every bind mounted on top of it.
C4_UnionBetweenPreAndPostBinds ==
  (phase \in {"open", "closed"} /\ error = "None") =>
     \E u \in 1..Len(Acquired) :
        /\ IsUnion(Acquired[u].cmd)
        /\ \A i \in 1..Len(Acquired) :
             /\ (i < u) <=> IsPreUnion(Acquired[i].cmd)
             /\ (i > u) <=> IsOnTop(Acquired[i].cmd)
        /\ u > 1 /\ u < Len(Acquired)
        /\ phase = "closed" =>
             \E v \in 1..Len(Released) :
                /\ Released[v].cmd = ReleaseOf(Acquired[u].cmd)
                /\ \A i \in (u + 1)..Len(Acquired) :
                     \E j \in 1..(v - 1) :
                        Released[j].cmd = ReleaseOf(Acquired[i].cmd)

C4_Witness ==
  /\ phase = "closed" /\ error = "None"
  /\ target = "cuttlestone_x86_phone" /\ srcKind = <<"dir", "dir", "file">>
  /\ Len(Released) = 8

\* C5 (as claimed): the release command of a Mount is executed at most
\* once, whatever is done with the Mount, and only if its acquire command
\* succeeded.
C5_ReleaseAtMostOnce ==
  /\ Len(Released) <= 1
  /\ Len(Released) > 0 => Len(Acquired) = 1

\* C6: once the session (or the exception holding a half-built session) has
\* been disposed of, every mount command that succeeded has had its release
\* command run after it.
C6_ReleaseGuaranteed ==
  phase = "closed" =>
     \A i \in 1..Len(log) :
        (log[i].by = "acquire" /\ log[i].ok) =>
           \E j \in (i + 1)..Len(log) :
              log[j].by = "release" /\ log[j].cmd = ReleaseOf(log[i].cmd)

C6_Witness ==
  /\ phase = "closed" /\ error = "ValueError"
  /\ Len(Acquired) = 2 /\ Len(Released) = 2

\* C7 (as claimed): Overlay(...) for a target with a rule whose source is
\* neither a file nor a directory raises ValueError, leaves no mount active
\* when the failure is observed, and never attempts the union mount.
C7_InvalidSourceLeavesNoMount ==
  (/\ phase = "failed"
   /\ \E i \in 1..Len(srcKind) : srcKind[i] = "other"
   /\ \A i \in 1..Len(log) : log[i].ok) =>
     /\ error = "ValueError"
     /\ ActiveMounts = 0
     /\ \A i \in 1..Len(log) : ~IsUnion(log[i].cmd)

\* C8: a mount command that exits non-zero produces no handle: the Mount
\* whose construction failed holds no command, self._mounts holds exactly the
\* mounts acquired before it, and the release command of the failed mount is
\* never run.
C8_FailedAcquireRetainsNothing ==
  error = "CalledProcessError" =>
     \E k \in 1..Len(log) :
        /\ log[k].by = "acquire" /\ ~log[k].ok
        /\ \A i \in 1..(k - 1) : log[i].by = "acquire" /\ log[i].ok
        /\ phase = "failed" =>
             /\ Len(log) = k
             /\ Len(mounts) = k - 1
             /\ \A i \in 1..(k - 1) :
                  /\ mounts[i].mount_command = log[i].cmd
                  /\ mounts[i].unmount_command = ReleaseOf(log[i].cmd)
             /\ Len(failed) = 1
             /\ failed[1].mount_command = None
             /\ failed[1].unmount_command = None
        /\ \A j \in (k + 1)..Len(log) :
             /\ log[j].by = "release"
             /\ log[j].cmd # ReleaseOf(log[k].cmd)
        /\ phase = "closed" => Len(log) = 2 * k - 1

C8_Witness ==
  /\ phase = "closed" /\ error = "CalledProcessError"
  /\ Len(Acquired) = 4 /\ Len(Released) = 4

\* C9: a release command that exits non-zero does not stop the unwind: the
\* release commands of all remaining mounts are still run, in the same
\* reverse order.
C9_ReleaseFailureDoesNotStopUnwind ==
  phase = "closed" =>
     \A f \in 1..Len(Released) :
        ~Released[f].ok =>
           /\ Len(Released) = Len(Acquired)
           /\ \A j \in (f + 1)..Len(Released) :
                Released[j].cmd = ReleaseOf(Acquired[Len(Acquired) + 1 - j].cmd)

C9_Witness ==
  /\ phase = "closed"
  /\ Len(Released) = 5
  /\ ~Released[1].ok /\ ~Released[3].ok /\ Released[5].ok

\* C10 (as claimed): the caller of the teardown receives every release
\* failure that occurred in it.
C10_AllReleaseFailuresReported ==
  phase = "closed" =>
     Len(reported) = Len(SelectSeq(Released, LAMBDA e : ~e.ok))

SessionRoot ==
  CHOOSE sd \in SourceDirs : log[1].cmd.args[1] = sd \o <<"out">>

\* the positions of the log at which the union mount command was run
UnionAt == { i \in 1..Len(log) : IsUnion(log[i].cmd) }

\* a directory made by mkdtemp with the given prefix
IsTmpDir(path, prefix) ==
  Len(path) = 3 /\ path[1] = "/tmp" /\ path[2] = prefix

\* C12: the union mount command has lowerdir = S/overlays/<layer> for the
\* configured layers in declared order, then the session's ovtmp_ directory,
\* then S as the last entry; it mounts at S and is released by
\* 'sudo umount S'.
C12_LowerdirOverlaysDynamicSource ==
  \A i \in UnionAt :
     LET c == log[i].cmd
         layers == OVERLAY_MAP[target]
         n == Len(layers)
     IN /\ Len(c.lowerdir) = n + 2
        /\ \A k \in 1..n : c.lowerdir[k] = SessionRoot \o <<"overlays", layers[k]>>
        /\ IsTmpDir(c.lowerdir[n + 1], "ovtmp_")
        /\ c.lowerdir[n + 2] = SessionRoot
        /\ c.args = <<SessionRoot>>
        /\ (log[i].ok /\ phase \in {"open", "failed"}) =>
              \E m \in 1..Len(mounts) :
                 /\ mounts[m].mount_command = c
                 /\ mounts[m].unmount_command = Cmd("sudo umount", <<SessionRoot>>)

C12_Witness ==
  /\ phase = "open" /\ target = "unittest"
  /\ \E i \in UnionAt :
        log[i].cmd.lowerdir = << <<"src", "overlays", "unittest1">>,
                                 <<"src", "overlays", "unittest2">>,
                                 <<"/tmp", "ovtmp_", "b">>,
                                 <<"src">> >>

\* C13 (as claimed): lowerdir is the configured overlays in declared order,
\* then the source root, then the synthetic layer as the last entry.
C13_LowerdirSourceThenSynthetic ==
  \A i \in UnionAt :
     LET lower == log[i].cmd.lowerdir
         n == Len(OVERLAY_MAP[target])
     IN /\ Len(lower) = n + 2
        /\ \A k \in 1..n :
             lower[k] = SessionRoot \o <<"overlays", OVERLAY_MAP[target][k]>>
        /\ lower[n + 1] = SessionRoot
        /\ IsTmpDir(lower[n + 2], "ovtmp_")

\* C13 (amended): lowerdir is the configured overlays in declared order,
\* then the synthetic layer, then the source root as the last entry.
C13_LowerdirSyntheticThenSource ==
  \A i \in UnionAt :
     LET lower == log[i].cmd.lowerdir
         n == Len(OVERLAY_MAP[target])
     IN /\ SubSeq(lower, 1, n) =
             [k \in 1..n |-> SessionRoot \o <<"overlays", OVERLAY_MAP[target][k]>>]
        /\ SubSeq(lower, n + 2, Len(lower)) = <<SessionRoot>>
        /\ IsTmpDir(lower[n + 1], "ovtmp_")
        /\ lower[n + 1] \in dirs

C13_Witness ==
  /\ phase = "open" /\ target = "sdm845"
  /\ \E i \in UnionAt : Len(log[i].cmd.lowerdir) = 4 /\ log[i].ok

IsPrefix(p, q) == Len(p) <= Len(q) /\ SubSeq(q, 1, Len(p)) = p

\* the path a mount command mounts onto
MountPoint(cmd) == cmd.args[Len(cmd.args)]

\* C15: a successful Open first binds S/out (created if absent) onto a fresh
\* outtmp_ directory; right after the union mount it binds that directory
\* back onto S/out, with release command 'sudo umount S/out', so that the
\* topmost mount covering S/out is that bind and not the union; at teardown
\* the out-preserve bind is the last handle released.
C15_OutPreservedAndRestored ==
  [][/\ (phase = "none" /\ phase' = "open") =>
          \E sd \in SourceDirs :
             LET l == log'
                 out_dir == sd \o <<"out">>
                 tmp == l[1].cmd.args[2]
                 covering == { i \in 1..Len(mounts') :
                                 /\ mounts'[i].mount_command.op # "cp"
                                 /\ IsPrefix(MountPoint(mounts'[i].mount_command), out_dir) }
             IN /\ l[1].cmd = Cmd("sudo mount --bind", <<out_dir, tmp>>)
                /\ IsTmpDir(tmp, "outtmp_")
                /\ tmp \notin dirs
                /\ out_dir \in dirs' /\ tmp \in dirs'
                /\ \E u \in 2..(Len(l) - 1) :
                      /\ IsUnion(l[u].cmd)
                      /\ l[u].cmd.args = <<sd>>
                      /\ l[u + 1].cmd = Cmd("sudo mount --bind", <<tmp, out_dir>>)
                      /\ mounts'[u + 1].mount_command = l[u + 1].cmd
                      /\ mounts'[u + 1].unmount_command = Cmd("sudo umount", <<out_dir>>)
                      /\ \A i \in covering : i <= u + 1
                      /\ \A i \in 1..Len(l) :
                           (i # u + 1 /\ l[i].cmd.op = "sudo mount --bind"
                              /\ l[i].cmd.args[1] = tmp) => FALSE
     /\ (phase = "open" /\ phase' = "closed") =>
          /\ log'[Len(log')].by = "release"
          /\ log'[Len(log')].cmd = Cmd("sudo umount", <<log[1].cmd.args[2]>>)]_vars

C15_Witness ==
  /\ phase = "closed" /\ error = "None" /\ target = "unittest"
  /\ log[5].cmd = Cmd("sudo mount --bind", << <<"/tmp", "outtmp_", "a">>, <<"src", "out">> >>)
  /\ log[Len(log)].cmd = Cmd("sudo umount", << <<"/tmp", "outtmp_", "a">> >>)

\* the positions of the log whose acquire command names the path
AcquiresNaming(path) ==
  { i \in 1..Len(log) : log[i].by = "acquire" /\ \E k \in 1..Len(log[i].cmd.args) :
                                                    log[i].cmd.args[k] = path }

\* the positions of the log at which the release command was run
ReleasesOf(cmd) ==
  { i \in 1..Len(log) : log[i].by = "release" /\ log[i].cmd = cmd }

\* C16: in a successful Open each directory rule (src, dst) makes exactly
\* two acquires, a bind of S/src onto a fresh bindtmp_ directory before the
\* union mount and a bind of that directory onto S/dst after it; at teardown
\* 'umount S/dst' runs once before the union unmount and 'umount <bindtmp_>'
\* once after it.
C16_DirectoryRuleTwoBinds ==
  (phase \in {"open", "closed"} /\ error = "None") =>
     \A r \in 1..Len(srcKind) :
        srcKind[r] = "dir" =>
           LET from == SessionRoot \o RulesOf(target)[r].from
               to == SessionRoot \o RulesOf(target)[r].to
               Only(ixs) == CHOOSE i \in ixs : TRUE
           IN /\ Cardinality(AcquiresNaming(from)) = 1
              /\ Cardinality(AcquiresNaming(to)) = 1
              /\ Cardinality(UnionAt) = 1
              /\ LET a == Only(AcquiresNaming(from))
                     b == Only(AcquiresNaming(to))
                     u == Only(UnionAt)
                     tmp == log[a].cmd.args[2]
                 IN /\ a < u /\ u < b
                    /\ log[a].cmd = Cmd("sudo mount --bind", <<from, tmp>>)
                    /\ IsTmpDir(tmp, "bindtmp_")
                    /\ log[b].cmd = Cmd("sudo mount --bind", <<tmp, to>>)
                    /\ AcquiresNaming(tmp) = {a, b}
                    /\ phase = "closed" =>
                         /\ Cardinality(ReleasesOf(Cmd("sudo umount", <<to>>))) = 1
                         /\ Cardinality(ReleasesOf(Cmd("sudo umount", <<SessionRoot>>))) = 1
                         /\ Cardinality(ReleasesOf(Cmd("sudo umount", <<tmp>>))) = 1
                         /\ Only(ReleasesOf(Cmd("sudo umount", <<to>>)))
                              < Only(ReleasesOf(Cmd("sudo umount", <<SessionRoot>>)))
                         /\ Only(ReleasesOf(Cmd("sudo umount", <<SessionRoot>>)))
                              < Only(ReleasesOf(Cmd("sudo umount", <<tmp>>)))

C16_Witness ==
  /\ phase = "closed" /\ error = "None" /\ target = "unittest"
  /\ srcKind = <<"dir", "dir">>
  /\ Len(Acquired) = 7

\* C17: in a successful Open each file rule (src, dst) makes exactly one
\* acquire, a copy of S/src to <synthetic layer>/dst before the union mount,
\* and at teardown exactly one release, 'rm -f' of that destination; no bind
\* mount is made for it.
C17_FileRuleCopyAndDelete ==
  (phase \in {"open", "closed"} /\ error = "None") =>
     \A r \in 1..Len(srcKind) :
        srcKind[r] = "file" =>
           \E a \in 1..Len(log), u \in UnionAt :
              LET from == SessionRoot \o RulesOf(target)[r].from
                  dyn == log[u].cmd.lowerdir[Len(log[u].cmd.lowerdir) - 1]
                  dest == dyn \o RulesOf(target)[r].to
              IN /\ a < u
                 /\ log[a].cmd = Cmd("cp", <<from, dest>>)
                 /\ IsTmpDir(dyn, "ovtmp_")
                 /\ AcquiresNaming(from) \cup AcquiresNaming(dest)
                      \cup AcquiresNaming(SessionRoot \o RulesOf(target)[r].to) = {a}
                 /\ phase = "open" => dest \in files
                 /\ phase = "closed" =>
                      /\ Cardinality(ReleasesOf(Cmd("rm -f", <<dest>>))) = 1
                      /\ \A j \in 1..Len(log) :
                           (log[j].by = "release" /\ log[j].cmd.op = "rm -f"
                              /\ ~IsPrefix(dyn, log[j].cmd.args[1])) => FALSE

C17_Witness ==
  /\ phase = "closed" /\ error = "None" /\ target = "unittest"
  /\ srcKind = <<"file", "file">>
  /\ Len(Released) = 5

\* the layers of a lowerdir list that hold an entry of the given name at
\* their top level; the source root holds the directory overlays/
LayersHolding(lower, root, name) ==
  { i \in 1..Len(lower) :
      \/ lower[i] \o <<name>> \in files \cup dirs
      \/ lower[i] = root /\ name = "overlays" }

\* C18: whenever the union mount command is run, the session's synthetic
\* layer holds a regular file at the path 'overlays' and that layer comes
\* before the source root in lowerdir, so the first layer of lowerdir holding
\* an entry 'overlays' is the synthetic one and the entry is a file: the
\* overlays/ directory of the source root is hidden.
C18_WhiteoutHidesOverlaysDir ==
  \A u \in UnionAt :
     LET lower == log[u].cmd.lowerdir
         holding == LayersHolding(lower, SessionRoot, "overlays")
         top == CHOOSE i \in holding : \A j \in holding : i <= j
     IN /\ holding # {}
        /\ IsTmpDir(lower[top], "ovtmp_")
        /\ lower[top] \in dirs
        /\ lower[top] \o <<"overlays">> \in files
        /\ lower[top] \o <<"overlays">> \notin dirs
        /\ \E j \in holding : j > top /\ lower[j] = SessionRoot

C18_Witness ==
  /\ phase = "open" /\ target = "unittest"
  /\ \E u \in UnionAt : log[u].ok
  /\ <<"/tmp", "ovtmp_", "b", "overlays">> \in files

\* a list of Mounts holds the union mount of the source root
HoldsUnionOn(ms, root) ==
  \E i \in 1..Len(ms) :
     IsUnion(ms[i].mount_command) /\ ms[i].mount_command.args = <<root>>

\* C19 (as claimed): no reachable state has two un-closed sessions each
\* holding a union mount on the same source root.
C19_OneSessionPerRoot ==
  \A sd \in SourceDirs :
     ~(/\ phase = "open" /\ HoldsUnionOn(mounts, sd)
       /\ second.phase = "open" /\ HoldsUnionOn(second.mounts, sd))

\* C20: Open for a target of OVERLAY_MAP that FS_VIEW_MAP does not name
\* walks no rule: it makes no copy and no intermediate bind, succeeds when
\* its commands exit zero, and then has made exactly three acquires, the
\* out-preserve bind, the union mount and the out-restore bind, in this order.
C20_NoViewMeansNoRules ==
  (phase # "none" /\ target \in (DOMAIN OVERLAY_MAP) \ (DOMAIN FS_VIEW_MAP)) =>
     /\ srcKind = <<>>
     /\ \A i \in 1..Len(log) :
          /\ log[i].cmd.op # "cp"
          /\ \A k \in 1..Len(log[i].cmd.args) :
               ~IsTmpDir(log[i].cmd.args[k], "bindtmp_")
     /\ (\A i \in 1..Len(log) : log[i].by = "acquire" => log[i].ok) =>
          /\ error = "None"
          /\ Len(Acquired) = 3
          /\ LET out_dir == SessionRoot \o <<"out">>
                 tmp == Acquired[1].cmd.args[2]
             IN /\ Acquired[1].cmd = Cmd("sudo mount --bind", <<out_dir, tmp>>)
                /\ IsTmpDir(tmp, "outtmp_")
                /\ IsUnion(Acquired[2].cmd)
                /\ Acquired[3].cmd = Cmd("sudo mount --bind", <<tmp, out_dir>>)

C20_Witness ==
  /\ phase = "open" /\ target = "msm8937_32go"
  /\ Len(mounts) = 3 /\ Len(log) = 3

\* the number of rules of the session's target whose source is of the kind
RulesOfKind(kind) == Cardinality({ r \in 1..Len(srcKind) : srcKind[r] = kind })

\* C21: while the session object exists (Open succeeded, or it failed and the
\* caller still holds the exception), GetMountInfo lists exactly one
\* (mount_command, unmount_command) pair per mount command that exited zero,
\* none of which has been released, in the order the commands ran, and the
\* unmount command of each pair is the one that undoes its mount command;
\* after a successful Open with f file rules and d directory rules the list
\* has 3 + f + 2d entries.
C21_MountInfoListsActiveMounts ==
  phase \in {"open", "failed"} =>
     LET info == GetMountInfo(mounts)
     IN /\ Released = <<>>
        /\ Len(info) = Len(Acquired)
        /\ \A i \in 1..Len(info) :
             /\ info[i].mount_command = Acquired[i].cmd
             /\ info[i].unmount_command = ReleaseOf(Acquired[i].cmd)
        /\ phase = "open" =>
             Len(info) = 3 + RulesOfKind("file") + 2 * RulesOfKind("dir")

C21_Witness ==
  /\ phase = "open" /\ target = "cuttlestone_x86_phone"
  /\ srcKind = <<"dir", "file", "dir">>
  /\ Len(GetMountInfo(mounts)) = 8
  /\ GetMountInfo(mounts)[8].unmount_command =
       Cmd("sudo umount", << <<"src", "device", "qcom", "common",
                               "vendor_hal_makefile_generator.sh">> >>)

\* the directories made by tempfile.mkdtemp in Overlay.__init__ that exist
SessionTmpDirs ==
  { d \in dirs : \/ IsTmpDir(d, "outtmp_")
                 \/ IsTmpDir(d, "ovtmp_")
                 \/ IsTmpDir(d, "bindtmp_") }

C23_OutputDirsEnsured ==
  [][(phase' \in {"open", "failed"} /\ opens' # opens) =>
       /\ dirs \subseteq dirs'
       /\ error' \notin {"FileExistsError", "FileNotFoundError"}
       /\ \A u \in 1..Len(log') :
            IsUnion(log'[u].cmd) =>
               LET overlay_out_dir == log'[u].cmd.args[1] \o <<"out", "overlays">>
                   target_out_dir == overlay_out_dir \o <<target'>>
               IN /\ { overlay_out_dir, target_out_dir,
                       target_out_dir \o <<"work">>,
                       target_out_dir \o <<"artifacts">> } \subseteq dirs'
                  /\ log'[u].cmd.workdir \in dirs'
                  /\ log'[u].cmd.upperdir \in dirs'
       /\ (opens' > 1 /\ \A i \in 1..Len(log') : log'[i].ok) =>
            phase' = "open" \/ error' = "ValueError"]_vars

C23_Witness ==
  /\ opens = 2 /\ phase = "open" /\ target = "unittest"
  /\ \E u \in UnionAt : log[u].ok
  /\ <<"src", "out", "overlays", "unittest", "work">> \in dirs
  /\ tmpCount >= 6

\* the run of Overlay.__init__ for the session's target on a fresh tree in
\* which every mount command exits zero and the rule sources are of the kinds
SuccessfulRun(kinds) ==
  Overlay__init__(target, SessionRoot, kinds, StartOfInit(BaseDirs, {}, 0, 0))

\* the kinds of valid rule sources that agree with srcKind wherever the
\* source is a file or a directory
ValidKindsLike(ks) ==
  { k \in [1..Len(ks) -> {"file", "dir"}] :
      \A r \in 1..Len(ks) : ks[r] # "other" => k[r] = ks[r] }

\* C24: when Overlay(...) fails on a mount command that exits non-zero or on
\* a rule source that is neither file nor directory, the failing step is the
\* last thing it did: every command before it is an acquire that exited
\* zero, no command follows it, and the mounts held are exactly those of a
\* successful run up to, and not including, the failing step.
C24_SetupStopsAtFirstFailure ==
  (/\ phase = "failed"
   /\ error \in {"CalledProcessError", "ValueError"}
   /\ target \in DOMAIN OVERLAY_MAP) =>
     /\ \A i \in 1..Len(log) : log[i].by = "acquire"
     /\ \A i \in 1..(Len(log) - 1) : log[i].ok
     /\ (error = "CalledProcessError") <=> ~log[Len(log)].ok
     /\ Len(mounts) = Len(Acquired)
     /\ \E kinds \in ValidKindsLike(srcKind) :
          LET full == SuccessfulRun(kinds)
              held == GetMountInfo(mounts)
              all == GetMountInfo(full.mounts)
          IN /\ full.err = "None"
             /\ Len(held) < Len(all)
             /\ held = SubSeq(all, 1, Len(held))
             /\ error = "CalledProcessError" =>
                  log[Len(log)].cmd = all[Len(held) + 1].mount_command
             /\ error = "ValueError" =>
                  /\ srcKind[Len(held)] = "other"
                  /\ \A q \in 1..(Len(held) - 1) : srcKind[q] # "other"

C24_Witness ==
  /\ phase = "failed" /\ error = "CalledProcessError"
  /\ target = "cuttlestone_x86_phone" /\ srcKind = <<"dir", "file", "dir">>
  /\ Len(log) = 6 /\ Len(mounts) = 5
  /\ IsOnTop(log[6].cmd) /\ ~log[6].ok

C24_WitnessInvalidSource ==
  /\ phase = "failed" /\ error = "ValueError"
  /\ target = "unittest" /\ srcKind = <<"file", "other">>
  /\ Len(mounts) = 2

\* the number of directory rules among the first r rules of the session
DirRulesUpTo(r) == Cardinality({ q \in 1..r : srcKind[q] = "dir" })

\* C25: the commands of Overlay(...) run in the order of the rule list: the
\* out-preserve bind first, then one command per rule in rule order (the
\* copy of a file rule, the intermediate bind of a directory rule), then the
\* union mount, then the out-restore bind as the first command after it,
\* then the final binds of the directory rules in rule order, each from the
\* intermediate directory of its own rule.
C25_CommandsFollowRuleOrder ==
  (phase \in {"open", "failed"} /\ target \in DOMAIN OVERLAY_MAP) =>
     LET S == SessionRoot
         rules == RulesOf(target)
         n == Len(rules)
     IN /\ log[1].cmd.args[1] = S \o <<"out">>
        /\ IsTmpDir(log[1].cmd.args[2], "outtmp_")
        /\ \A j \in 2..Len(log) :
             /\ j <= n + 1 =>
                  /\ log[j].cmd.args[1] = S \o rules[j - 1].from
                  /\ srcKind[j - 1] = "file" => log[j].cmd.op = "cp"
                  /\ srcKind[j - 1] = "dir" =>
                       /\ log[j].cmd.op = "sudo mount --bind"
                       /\ IsTmpDir(log[j].cmd.args[2], "bindtmp_")
             /\ (j = n + 2) <=> IsUnion(log[j].cmd)
             /\ j = n + 3 =>
                  log[j].cmd = BindCommand(log[1].cmd.args[2], S \o <<"out">>)
             /\ j > n + 3 =>
                  \E r \in 1..n :
                     /\ srcKind[r] = "dir"
                     /\ DirRulesUpTo(r) = j - (n + 3)
                     /\ log[j].cmd = BindCommand(log[r + 1].cmd.args[2],
                                                 S \o rules[r].to)
        /\ phase = "open" => Len(log) = n + 3 + DirRulesUpTo(n)

C25_Witness ==
  /\ phase = "open" /\ target = "cuttlestone_x86_phone"
  /\ srcKind = <<"dir", "dir", "file">>
  /\ log[7].cmd = BindCommand(<<"/tmp", "bindtmp_", "c">>,
                               <<"src", "vendor", "qcom", "opensource", "interfaces">>)
  /\ log[8].cmd = BindCommand(<<"/tmp", "bindtmp_", "d">>,
                               <<"src", "hardware", "qcom", "bt">>)

\* the layer of a lowerdir list whose entry shows in the merged view, given
\* the layers that contain the path: the first of them
ShownLayer(present) == CHOOSE i \in present : \A j \in present : i <= j

\* C26: while the session holds the union mount (or has tried to mount it),
\* the copy a file rule made lies in exactly one layer of lowerdir, the
\* session's synthetic one, which comes after every configured overlay layer
\* and before the source root.  So, the first layer that contains a path
\* being the one shown, whatever the configured layers and the source root
\* contain at the rule's destination, the merged view shows the copy exactly
\* when no configured layer contains the path, and a configured layer's file
\* otherwise.
C26_CopiedFilePrecedence ==
  \A u \in UnionAt :
     \A r \in 1..Len(srcKind) :
        (phase \in {"open", "failed"} /\ srcKind[r] = "file" /\ log[r + 1].ok) =>
           LET lower == log[u].cmd.lowerdir
               to == RulesOf(target)[r].to
               holdingCopy == { i \in 1..Len(lower) : lower[i] \o to \in files }
               configured == { i \in 1..Len(lower) :
                                 IsPrefix(SessionRoot \o <<"overlays">>, lower[i]) }
               root == { i \in 1..Len(lower) : lower[i] = SessionRoot }
           IN /\ Cardinality(holdingCopy) = 1
              /\ Cardinality(root) = 1
              /\ Cardinality(configured) = Len(OVERLAY_MAP[target])
              /\ holdingCopy \cap (configured \cup root) = {}
              /\ log[r + 1].cmd = CpCommand(SessionRoot \o RulesOf(target)[r].from,
                                            lower[ShownLayer(holdingCopy)] \o to)
              /\ \A inConfigured \in SUBSET configured, inRoot \in SUBSET root :
                    LET shown == ShownLayer(inConfigured \cup holdingCopy \cup inRoot)
                    IN /\ inConfigured = {} => shown \in holdingCopy
                       /\ inConfigured # {} => shown \in inConfigured

C26_Witness ==
  /\ phase = "open" /\ target = "unittest" /\ srcKind = <<"dir", "file">>
  /\ \E u \in UnionAt :
        /\ log[u].ok
        /\ log[u].cmd.lowerdir[3] \o <<"to_file">> \in files
        /\ Len(log[u].cmd.lowerdir) = 4

C27_WitnessNoNewTag ==
  /\ monFn = "run_workflow_triggers"
  /\ ~monResult.trigger
  /\ monArgs.returncode = 0
  /\ monArgs.lines = << <<"r", "2">>, <<"v", "1">> >>
  /\ monArgs.current_tags = << <<"r", "1">>, <<"r", "2">> >>
  /\ monResult.tags = monArgs.current_tags

\* the positions of monCmds at which the function ran a command
CommandsBy(fn) == { i \in 1..Len(monCmds) : monCmds[i].by = fn }

\* the positions of monCmds at which a call of cleanup_target began: its
\* first command is rm -rf
CleanupCalls ==
  { i \in CommandsBy("cleanup_target") : monCmds[i].args[1] = "-rf" }

\* the tag git describe printed for the cloned HEAD, empty if the clone failed
HeadTag ==
  IF monArgs.rc.rm_clone = 0 /\ monArgs.rc.git_clone = 0 /\ monArgs.rc.git_describe = 0
  THEN strip(monArgs.describe) ELSE <<>>

\* C28: every call of run_workflow_body calls cleanup_target exactly once,
\* after every command of the clone and of the archive, and runs nothing
\* after it; the archive is attempted exactly when the tag of the cloned HEAD
\* is in current_tags, and the call returns True exactly when it is and both
\* archive commands returned zero.
C28_CleanupOnEveryPath ==
  monFn = "run_workflow_body" =>
     LET inTags == \E j \in 1..Len(monArgs.current_tags) :
                      monArgs.current_tags[j] = HeadTag
     IN /\ Cardinality(CleanupCalls) = 1
        /\ CommandsBy("clone_git_repo") # {}
        /\ \A i \in CleanupCalls :
             /\ \A j \in CommandsBy("clone_git_repo") \cup CommandsBy("archive_git_repo") :
                  j < i
             /\ \A j \in i..Len(monCmds) : monCmds[j].by = "cleanup_target"
             /\ monCmds[i].args[2] = Join(monArgs.work_dir, <<monArgs.git_alias>>)
        /\ (CommandsBy("archive_git_repo") # {}) <=> inTags
        /\ monResult <=> (inTags /\ monArgs.rc.tar = 0 /\ monArgs.rc.gsutil = 0)
        /\ monRaised = "None"

C28_Witness ==
  /\ monFn = "run_workflow_body"
  /\ monResult = FALSE
  /\ monArgs.rc.tar = 0 /\ monArgs.rc.gsutil = 1
  /\ Len(monCmds) = 7
  /\ monCmds[6].by = "cleanup_target" /\ monCmds[5].prog = "gsutil"

C28_WitnessUnexpectedTag ==
  /\ monFn = "run_workflow_body"
  /\ monResult = FALSE
  /\ HeadTag = <<"r", "2", "-", "1">>
  /\ Len(monCmds) = 5

\* C29: archive_git_repo runs tar once, in work_dir, and then, only if tar
\* returned zero, gsutil -q cp once with the archive and the destination
\* gs://meta-source/<alias>/<git_tag>/meta-source.tar.gz; it returns True
\* exactly when both returned zero.
C29_ArchiveTarThenUpload ==
  monFn = "archive_git_repo" =>
     LET archive_name == <<"meta-source-", monArgs.alias, ".tar.gz">>
     IN /\ Len(monCmds) = IF monArgs.rc.tar = 0 THEN 2 ELSE 1
        /\ monCmds[1].prog = "tar"
        /\ monCmds[1].args = <<"-C", monArgs.target_work_dir, "-czf", archive_name, ".">>
        /\ monCmds[1].cwd = monArgs.work_dir
        /\ monCmds[1].returncode = monArgs.rc.tar
        /\ \A i \in 2..Len(monCmds) :
             /\ monCmds[i].prog = "gsutil"
             /\ monCmds[i].args =
                  <<"-q", "cp", archive_name,
                    <<"gs://meta-source", monArgs.alias, monArgs.git_tag,
                      "meta-source.tar.gz">> >>
             /\ monCmds[i].cwd = monArgs.work_dir
        /\ monResult <=> (monArgs.rc.tar = 0 /\ monArgs.rc.gsutil = 0)

C29_Witness ==
  /\ monFn = "archive_git_repo"
  /\ monResult = TRUE
  /\ Len(monCmds) = 2
  /\ monArgs.alias = "sdm660" /\ monArgs.git_tag = <<"r", "2">>

C29_WitnessTarFails ==
  /\ monFn = "archive_git_repo"
  /\ monResult = FALSE
  /\ monArgs.rc.tar = 1 /\ monArgs.rc.gsutil = 0
  /\ Len(monCmds) = 1

\* C30 (as claimed): target_meta_loop, called the way main calls it or with
\* one argument per parameter, never raises and never returns.
C30_LoopRunsForever ==
  monFn \in {"main", "target_meta_loop"} => monRaised = "None"

====
